---- MODULE Spec2Model ----
(***************************************************************************)
(* Smart-Sign (src/app.py): a Flask endpoint that turns a sentence into    *)
(* ISL glosses (hosted language model), looks each gloss up in a Google    *)
(* Drive folder tree, and concatenates the downloaded videos and the       *)
(* placeholder images into one MP4.                                        *)
(*                                                                         *)
(* Text is a sequence of one-character strings.  The language model, the   *)
(* Drive API, PIL and moviepy are the environment: what they answer, and   *)
(* whether they raise, is drawn with \E in the actions.                    *)
(***************************************************************************)
EXTENDS Integers, Sequences, FiniteSets, TLC

\* ------------------------------------------------------------------ bounds
\* Longest answer (in characters) the language model gives to the gloss prompt.
MaxText == 3
\* Most entries the storage server puts on one page of a listing (it may
\* return fewer than the pageSize asked for).
ServerPageCap == 200
\* Files in the store's folder "A" beyond the 300 names shown to the model.
ExtraFiles == 2

\* -------------------------------------------------------- program constants
\* filenames[:300]
ShownLimit == 300
\* pageSize=1000
pageSize == 1000
\* .set_duration(2)
PlaceholderDuration == 2

None == "None"
ROOT_FOLDER_NAME == "ISL Dictionary"
IGNORED_FOLDERS == {"MHSL - 259", "New 2500 ISL Dictionary Videos", "NCERT 156 new"}

\* ------------------------------------------------------------- characters
Lower == {"a", "b"}
Upper == {"A", "B"}
Digits == {"7"}
Whitespace == {" ", "\n"}
\* The characters the language model's gloss answer is made of.
Alphabet == {"a", "b", "7", "#", " ", ",", "\n"}

\* str.upper() on one character
upper(c) == CASE c = "a" -> "A" [] c = "b" -> "B" [] OTHER -> c
\* str.isalpha() / str.isdigit() on one character
isalpha(c) == c \in Lower \cup Upper
isdigit(c) == c \in Digits

\* All texts of at most n characters.
Texts(n) == UNION {[1..k -> Alphabet] : k \in 0..n}

\* str.replace(ch, '')
RECURSIVE remove(_, _)
remove(s, ch) ==
    IF s = <<>> THEN <<>>
    ELSE IF Head(s) = ch THEN remove(Tail(s), ch)
         ELSE <<Head(s)>> \o remove(Tail(s), ch)

\* str.split(sep): the pieces between separators, empty pieces included.
RECURSIVE split(_, _)
split(s, sep) ==
    IF s = <<>> THEN << <<>> >>
    ELSE LET rest == split(Tail(s), sep)
         IN  IF Head(s) = sep THEN << <<>> >> \o rest
             ELSE << <<Head(s)>> \o Head(rest) >> \o Tail(rest)

RECURSIVE lstrip(_)
lstrip(s) ==
    IF s # <<>> /\ Head(s) \in Whitespace THEN lstrip(Tail(s)) ELSE s

RECURSIVE rstrip(_)
rstrip(s) ==
    IF s # <<>> /\ s[Len(s)] \in Whitespace THEN rstrip(SubSeq(s, 1, Len(s) - 1)) ELSE s

\* str.strip()
strip(s) == rstrip(lstrip(s))

RECURSIVE keep_stripped(_)
keep_stripped(pieces) ==
    IF pieces = <<>> THEN <<>>
    ELSE IF strip(Head(pieces)) # <<>>
         THEN <<strip(Head(pieces))>> \o keep_stripped(Tail(pieces))
         ELSE keep_stripped(Tail(pieces))

\* A slip in the comprehension: pieces are kept as they are split.
get_isl_glosses_unstripped(response_text) ==
    split(remove(response_text, "\n"), ",")

\* [w.strip() for w in response.text.replace('\n', '').split(',') if w.strip()]
get_isl_glosses(response_text) ==
    keep_stripped(split(remove(response_text, "\n"), ","))

\* ------------------------------------------------------- the remote store
\* What the Drive holds: folders and files, in the order the API lists them.
Digit == <<"0", "1", "2", "3", "4", "5", "6", "7", "8", "9">>
\* The name of the i-th video of folder "A": "v001", "v002", ...
vname(i) ==
    <<"v", Digit[((i \div 100) % 10) + 1], Digit[((i \div 10) % 10) + 1], Digit[(i % 10) + 1]>>

StoreFolders ==
    << [id |-> "root", name |-> ROOT_FOLDER_NAME, parent |-> "drive", trashed |-> FALSE],
       [id |-> "fOldA", name |-> "A", parent |-> "root", trashed |-> TRUE],
       [id |-> "fA", name |-> "A", parent |-> "root", trashed |-> FALSE],
       [id |-> "fB", name |-> "B", parent |-> "root", trashed |-> FALSE],
       [id |-> "fN", name |-> "Numbers", parent |-> "root", trashed |-> FALSE],
       [id |-> "fI", name |-> "MHSL - 259", parent |-> "root", trashed |-> FALSE],
       [id |-> "fDeep", name |-> "Numbers", parent |-> "fA", trashed |-> FALSE] >>

NFilesA == ShownLimit + ExtraFiles

StoreFiles ==
    [i \in 1..NFilesA |->
        [id |-> i, name |-> vname(i), parent |-> "fA", mime |-> "video/mp4", trashed |-> FALSE]]
    \o
    << [id |-> 400, name |-> <<"p">>, parent |-> "fA", mime |-> "application/pdf", trashed |-> FALSE],
       [id |-> 401, name |-> <<"t">>, parent |-> "fB", mime |-> "video/mp4", trashed |-> TRUE],
       [id |-> 501, name |-> <<"n">>, parent |-> "fN", mime |-> "video/mp4", trashed |-> FALSE],
       [id |-> 502, name |-> <<"n">>, parent |-> "fN", mime |-> "video/mp4", trashed |-> FALSE],
       [id |-> 503, name |-> <<"q", "'", "s">>, parent |-> "fN", mime |-> "video/mp4", trashed |-> FALSE],
       [id |-> 601, name |-> <<"m">>, parent |-> "fI", mime |-> "video/mp4", trashed |-> FALSE],
       [id |-> 701, name |-> <<"d">>, parent |-> "fDeep", mime |-> "video/mp4", trashed |-> FALSE],
       [id |-> 801, name |-> <<"r">>, parent |-> "root", mime |-> "video/mp4", trashed |-> FALSE] >>

FolderIds == {StoreFolders[i].id : i \in 1..Len(StoreFolders)}
ParentIds == FolderIds \cup {"bogus", None}

\* files().list(q="mimeType=folder and name='..' and trashed=false [and '..' in parents]")
drive_list_folders(folder_name, parent_id) ==
    SelectSeq(StoreFolders,
              LAMBDA f : /\ f.name = folder_name
                         /\ ~f.trashed
                         /\ (parent_id # None => f.parent = parent_id))

\* files().list(q="'..' in parents and mimeType contains 'video' and trashed=false")
drive_list_videos(folder_id) ==
    SelectSeq(StoreFiles,
              LAMBDA f : f.parent = folder_id /\ f.mime = "video/mp4" /\ ~f.trashed)

Min(a, b) == IF a < b THEN a ELSE b

\* The length of the pages the server answers a listing with.
PageLen == Min(pageSize, ServerPageCap)
\* How many pages a listing of n entries takes (an empty listing is one page).
NPages(n) == IF n = 0 THEN 1 ELSE (n + PageLen - 1) \div PageLen
\* Page p of a listing: its files and whether it carries a nextPageToken.
drive_page(listing, p) ==
    [files |-> SubSeq(listing, (p - 1) * PageLen + 1, Min(p * PageLen, Len(listing))),
     nextPageToken |-> p * PageLen < Len(listing)]

\* ------------------------------------------------------------ the helpers
\* find_folder_id propagating the API's exception instead of catching it.
find_folder_id_raising(service, folder_name, parent_id, api_raises) ==
    IF service = None THEN None
    ELSE IF api_raises THEN "raise"
    ELSE LET files == drive_list_folders(folder_name, parent_id)
         IN  IF files # <<>> THEN files[1].id ELSE None

\* find_folder_id(folder_name, parent_id): api_raises says whether the list
\* call raises; the helper catches it and answers None.
find_folder_id(service, folder_name, parent_id, api_raises) ==
    IF service = None THEN None
    ELSE IF api_raises THEN None
    ELSE LET files == drive_list_folders(folder_name, parent_id)
         IN  IF files # <<>> THEN files[1].id ELSE None

\* for f in response.get('files', []): files_map[f['name']] = {..., 'id': f['id']}
\* A dict is a sequence of [name, id] entries: a key keeps the position of its
\* first insertion and the value of its last.
dict_update(m, files) ==
    LET n == Len(m) + Len(files)
        at(i) == IF i <= Len(m) THEN m[i]
                 ELSE [name |-> files[i - Len(m)].name, id |-> files[i - Len(m)].id]
        firsts == SelectSeq([i \in 1..n |-> i],
                            LAMBDA i : \A j \in 1..(i - 1) : at(j).name # at(i).name)
        last(name) == CHOOSE j \in 1..n :
                          /\ at(j).name = name
                          /\ \A k \in (j + 1)..n : at(k).name # name
    IN  [k \in 1..Len(firsts) |->
            [name |-> at(firsts[k]).name, id |-> at(last(at(firsts[k]).name)).id]]

\* The while loop of get_all_files_in_folder from page p on; the call for
\* page err_at raises (0: no call raises) and ends the loop.
RECURSIVE list_pages(_, _, _, _)
list_pages(files_map, listing, p, err_at) ==
    IF p = err_at THEN files_map
    ELSE LET page == drive_page(listing, p)
             m == dict_update(files_map, page.files)
         IN  IF ~page.nextPageToken THEN m
             ELSE list_pages(m, listing, p + 1, err_at)

\* get_all_files_in_folder(folder_id)
get_all_files_in_folder(folder_id, err_at) ==
    list_pages(<<>>, drive_list_videos(folder_id), 1, err_at)

\* list(fmap.keys())
keys(m) == [i \in 1..Len(m) |-> m[i].name]
\* fmap[best]
dict_get(m, name) == m[CHOOSE i \in 1..Len(m) : m[i].name = name]
in_list(x, l) == \E i \in 1..Len(l) : l[i] = x

\* .strip().replace("'", "").replace('"', "") of the model's answer
clean_answer(answer) == remove(remove(strip(answer), "'"), "\"")

\* filenames[:300]: the names put in the prompt
shown(filenames) == SubSeq(filenames, 1, Min(ShownLimit, Len(filenames)))

\* Python's None where a file name (a sequence of characters) is expected.
NoneName == <<None>>

\* pick_best_file trusting the model's answer.
pick_best_file_unchecked(word, filenames, answer) ==
    IF filenames = <<>> THEN NoneName
    ELSE clean_answer(answer)

\* pick_best_file(word, filenames): answer is the text the model returns.
pick_best_file(word, filenames, answer) ==
    IF filenames = <<>> THEN NoneName
    ELSE LET resp == clean_answer(answer)
         IN  IF in_list(resp, filenames) THEN resp ELSE NoneName

\* For each folder id get_all_files_in_folder can be given and each page whose
\* call may raise: the fmap it builds and list(fmap.keys()), computed once.
MaxErrAt == NPages(NFilesA)
Listings ==
    [folder_id \in FolderIds |->
        [err_at \in 0..MaxErrAt |->
            LET m == get_all_files_in_folder(folder_id, err_at)
            IN  [fmap |-> m, filenames |-> keys(m)]]]

\* The model's answer to the best-match prompt when generate_content raises.
LLMRaises == <<"raise">>

\* What search_video_smart hands back: type is None, "video" (id is the matched
\* file's id) or "raise" (an exception leaves the function in step).  What it
\* did on the way: queries are the storage list calls it made, sid the folder
\* it listed, err_page the listing call that raised (0: none), caught the
\* storage exceptions the helpers caught, llm its calls of the language model,
\* nfiles the size of fmap.
NoQuery == {}
Outcome(type, id, step, qs, sid, err_page, c, llm, nfiles) ==
    [type |-> type, id |-> id, step |-> step, queries |-> qs, sid |-> sid,
     err_page |-> err_page, caught |-> c, llm |-> llm, nfiles |-> nfiles]
Miss(qs, sid, err_page, c, llm, nfiles) ==
    Outcome(None, 0, "", qs, sid, err_page, c, llm, nfiles)
FolderQuery(name, parent_id) == [kind |-> "folders", name |-> name, parent |-> parent_id]
FilesQuery(folder_id) == [kind |-> "files", name |-> "", parent |-> folder_id]

\* How many list calls the listing of each folder takes, computed once.
ListingPages ==
    [folder_id \in FolderIds |-> NPages(Len(drive_list_videos(folder_id)))]

\* Whether the listing of folder_id reaches the call that raises.
list_raised(folder_id, err_at) == err_at \in 1..ListingPages[folder_id]

\* The per-letter folder without upper-casing the first character.
sub_folder_raw(word) ==
    LET first == word[1]
    IN  IF isalpha(first) THEN first ELSE IF isdigit(first) THEN "Numbers" ELSE "A"

\* first = word[0].upper()
\* sub = first if first.isalpha() else ("Numbers" if first.isdigit() else "A")
sub_folder(word) ==
    LET first == upper(word[1])
    IN  IF isalpha(first) THEN first ELSE IF isdigit(first) THEN "Numbers" ELSE "A"

\* search_video_smart(word, root_id).  The environment: folder_raises (the
\* folder query raises), err_at (the listing call that raises, 0: none),
\* answer (the model's answer to the best-match prompt, or LLMRaises).
search_video_smart(service, word, root_id, folder_raises, err_at, answer) ==
    IF service = None \/ root_id = None
    THEN Miss(NoQuery, None, 0, 0, 0, 0)
    ELSE IF word = <<>>
    THEN Outcome("raise", 0, "word[0]", NoQuery, None, 0, 0, 0, 0)
    ELSE LET sub == sub_folder(word)
             sid == find_folder_id(service, sub, root_id, folder_raises)
             q1 == {FolderQuery(sub, root_id)}
             c1 == IF folder_raises THEN 1 ELSE 0
         IN  IF sub \in IGNORED_FOLDERS THEN Miss(NoQuery, None, 0, 0, 0, 0)
             ELSE IF sid = "raise"
             THEN Outcome("raise", 0, "find_folder_id", q1, None, 0, 0, 0, 0)
             ELSE IF sid = None THEN Miss(q1, None, 0, c1, 0, 0)
             ELSE LET fmap == Listings[sid][err_at].fmap
                      filenames == Listings[sid][err_at].filenames
                      q2 == q1 \cup {FilesQuery(sid)}
                      ep == IF list_raised(sid, err_at) THEN err_at ELSE 0
                      c2 == IF list_raised(sid, err_at) THEN 1 ELSE 0
                      n == Len(fmap)
                      best == pick_best_file(word, filenames, answer)
                  IN  IF fmap = <<>> THEN Miss(q2, sid, ep, c2, 0, 0)
                      ELSE IF answer = LLMRaises
                      THEN Outcome("raise", 0, "pick_best_file", q2, sid, ep, c2, 1, n)
                      ELSE IF best # NoneName /\ best # <<>>
                      THEN IF in_list(best, filenames)
                           THEN Outcome("video", dict_get(fmap, best).id, "", q2, sid, ep,
                                        c2, 1, n)
                           ELSE Outcome("raise", 0, "fmap[best]", q2, sid, ep, c2, 1, n)
                      ELSE Miss(q2, sid, ep, c2, 1, n)

\* ------------------------------------------------------------------ state
VARIABLES
    GOOGLE_CREDENTIALS_JSON, \* None (unset or empty), "invalid" or "valid"
    DRIVE_API_KEY,           \* None (unset or empty), "invalid" or "valid"
    ENV_ROOT_FOLDER_ID,      \* os.environ.get("ROOT_FOLDER_ID"): None or a folder id
    ROOT_FOLDER_ID,          \* None or a folder id
    drive_service,           \* None, "service_account" or "api_key"
    auth_tried,              \* the strategies setup_drive tried, in order
    name_searched,           \* whether the root folder was searched by name
    pc,                      \* where the program is
    body_read,               \* whether request.json was read
    glosses,                 \* process_sign's glosses
    gloss_count,             \* how many glosses get_isl_glosses returned in this request
    idx,                     \* how many iterations the running for loop has done
    lookups,                 \* what search_video_smart did for each gloss so far
    sequence,                \* process_sign's sequence
    clips,                   \* process_sign's clips
    cleanup_files,           \* process_sign's cleanup_files
    disk,                    \* the temp files of the request at hand: path -> content
    llm_calls,               \* calls of the language model in this request
    queries,                 \* storage list calls made in this request
    caught,                  \* storage exceptions the helpers caught in this request
    failed,                  \* the step whose exception the blanket handler caught
    response                 \* the HTTP response of this request

vars == <<GOOGLE_CREDENTIALS_JSON, DRIVE_API_KEY, ENV_ROOT_FOLDER_ID, ROOT_FOLDER_ID,
          drive_service, auth_tried, name_searched, pc, body_read, glosses,
          gloss_count, idx, lookups, sequence, clips, cleanup_files, disk, llm_calls, queries, caught,
          failed, response>>

startup_vars == <<GOOGLE_CREDENTIALS_JSON, DRIVE_API_KEY, ENV_ROOT_FOLDER_ID,
                  ROOT_FOLDER_ID, drive_service, auth_tried, name_searched>>

\* process_sign's local variables
locals == <<glosses, idx, lookups, sequence, clips, cleanup_files>>

request_vars == <<body_read, glosses, gloss_count, idx, lookups, sequence, clips, cleanup_files,
                  disk, llm_calls, queries, caught, failed, response>>

NoResponse == [status |-> 0, body |-> "", video |-> <<>>]

\* ---------------------------------------------------------------- start-up
\* setup_drive trying the API key before the service account.
setup_drive_key_first(creds, key) ==
    IF key = "valid"
    THEN [drive_service |-> "api_key", tried |-> <<"api_key">>]
    ELSE LET k == IF key # None THEN <<"api_key">> ELSE <<>>
         IN  IF creds = "valid"
             THEN [drive_service |-> "service_account", tried |-> k \o <<"service_account">>]
             ELSE [drive_service |-> None,
                   tried |-> k \o (IF creds # None THEN <<"service_account">> ELSE <<>>)]

\* setup_drive(): creds and key are the two environment variables; a value
\* that is set but "invalid" makes the build of the service raise.
setup_drive(creds, key) ==
    LET sa == IF creds # None THEN <<"service_account">> ELSE <<>>
    IN  IF creds = "valid"
        THEN [drive_service |-> "service_account", tried |-> sa]
        ELSE IF key = "valid"
        THEN [drive_service |-> "api_key", tried |-> sa \o <<"api_key">>]
        ELSE [drive_service |-> None,
              tried |-> sa \o (IF key # None THEN <<"api_key">> ELSE <<>>)]

Init ==
    /\ GOOGLE_CREDENTIALS_JSON \in {None, "invalid", "valid"}
    /\ DRIVE_API_KEY \in {None, "invalid", "valid"}
    /\ ENV_ROOT_FOLDER_ID \in {None, "root", "bogus"}
    /\ ROOT_FOLDER_ID = ENV_ROOT_FOLDER_ID
    /\ drive_service = None
    /\ auth_tried = <<>>
    /\ name_searched = FALSE
    /\ pc = "setup_drive"
    /\ body_read = FALSE
    /\ glosses = <<>>
    /\ gloss_count = 0
    /\ idx = 0
    /\ lookups = <<>>
    /\ sequence = <<>>
    /\ clips = <<>>
    /\ cleanup_files = <<>>
    /\ disk = <<>>
    /\ llm_calls = 0
    /\ queries = {}
    /\ caught = 0
    /\ failed = None
    /\ response = NoResponse

\* Line 58: setup_drive()
SetupDrive ==
    /\ pc = "setup_drive"
    /\ LET r == setup_drive(GOOGLE_CREDENTIALS_JSON, DRIVE_API_KEY)
       IN  /\ drive_service' = r.drive_service
           /\ auth_tried' = r.tried
    /\ pc' = "resolve_root"
    /\ UNCHANGED <<GOOGLE_CREDENTIALS_JSON, DRIVE_API_KEY, ENV_ROOT_FOLDER_ID,
                   ROOT_FOLDER_ID, name_searched>>
    /\ UNCHANGED request_vars

\* Line 77: if not ROOT_FOLDER_ID and drive_service
resolve_by_name(root_id, service) == root_id = None /\ service # None

\* Lines 77-81: the root folder is searched by name only when no id is configured.
ResolveRoot ==
    /\ pc = "resolve_root"
    /\ IF resolve_by_name(ROOT_FOLDER_ID, drive_service)
       THEN \E api_raises \in BOOLEAN :
               /\ ROOT_FOLDER_ID' =
                      find_folder_id(drive_service, ROOT_FOLDER_NAME, None, api_raises)
               /\ name_searched' = TRUE
       ELSE UNCHANGED <<ROOT_FOLDER_ID, name_searched>>
    /\ pc' = "idle"
    /\ UNCHANGED <<GOOGLE_CREDENTIALS_JSON, DRIVE_API_KEY, ENV_ROOT_FOLDER_ID,
                   drive_service, auth_tried>>
    /\ UNCHANGED request_vars

\* ------------------------------------------------------- /process_sign
\* str(e) of the exception each step raises.
exc_text(step) ==
    CASE step = "request.json" -> "400 Bad Request"
      [] step = "get_isl_glosses" -> "generate_content failed (glosses)"
      [] step = "word[0]" -> "string index out of range"
      [] step = "find_folder_id" -> "HttpError (folders)"
      [] step = "pick_best_file" -> "generate_content failed (best file)"
      [] step = "fmap[best]" -> "KeyError"
      [] step = "create_placeholder_image" -> "cannot write image"
      [] step = "download_drive_video" -> "HttpError (media)"
      [] step = "VideoFileClip" -> "cannot read video"
      [] step = "ImageClip" -> "cannot read image"
      [] step = "concatenate_videoclips" -> "cannot compose"
      [] step = "write_videofile" -> "cannot encode"
      [] step = "send_file" -> "cannot open output"
      [] OTHER -> "error"

\* The blanket handler answering with a fixed text.
error_response_generic(step) ==
    [status |-> 500, body |-> "Internal Server Error", video |-> <<>>]

\* Lines 228-231: return jsonify({"error": str(e)}), 500
error_response(step) ==
    [status |-> 500, body |-> exc_text(step), video |-> <<>>]

\* The start-up checks testing only the root folder id.
precheck_root_only(service, root_id) ==
    IF root_id = None
    THEN [status |-> 500, body |-> "Server Error: 'ROOT_FOLDER_ID' not set in Env Vars.",
          video |-> <<>>]
    ELSE NoResponse

\* Lines 185-188: the response of the start-up checks, NoResponse when they pass.
precheck(service, root_id) ==
    IF service = None
    THEN [status |-> 500, body |-> "Server Error: Google Drive not connected.",
          video |-> <<>>]
    ELSE IF root_id = None
    THEN [status |-> 500, body |-> "Server Error: 'ROOT_FOLDER_ID' not set in Env Vars.",
          video |-> <<>>]
    ELSE NoResponse

\* process_sign returns resp; its locals are gone.
Return(resp) ==
    /\ response' = resp
    /\ pc' = "done"
    /\ glosses' = <<>> /\ idx' = 0 /\ lookups' = <<>> /\ sequence' = <<>>
    /\ clips' = <<>> /\ cleanup_files' = <<>>

\* An exception raised in step reaches the except clause of lines 228-231.
Raise(step) ==
    /\ failed' = step
    /\ Return(error_response(step))

\* Lines 182-192: a request arrives; the start-up checks, then request.json.
\* The temp files of the request before stay on the real disk; no later
\* request reads them, and disk follows only the files of the request at hand.
Receive ==
    /\ pc \in {"idle", "done"}
    /\ disk' = <<>> /\ llm_calls' = 0 /\ queries' = {} /\ caught' = 0
    /\ gloss_count' = 0
    /\ LET early == precheck(drive_service, ROOT_FOLDER_ID)
       IN  IF early # NoResponse
           THEN /\ body_read' = FALSE
                /\ failed' = None
                /\ Return(early)
           ELSE \E body \in {"malformed", "json"} :
                /\ body_read' = TRUE
                /\ IF body = "malformed"
                   THEN Raise("request.json")
                   ELSE /\ failed' = None
                        /\ response' = NoResponse
                        /\ pc' = "get_glosses"
                        /\ UNCHANGED locals
    /\ UNCHANGED startup_vars

\* Line 194: glosses = get_isl_glosses(text)
GetGlosses ==
    /\ pc = "get_glosses"
    /\ llm_calls' = llm_calls + 1
    /\ \E answer \in Texts(MaxText) \cup {LLMRaises} :
          IF answer = LLMRaises
          THEN /\ Raise("get_isl_glosses")
               /\ UNCHANGED gloss_count
          ELSE /\ glosses' = get_isl_glosses(answer)
               /\ gloss_count' = Len(glosses')
               /\ pc' = IF glosses' = <<>> THEN "assemble" ELSE "search"
               /\ UNCHANGED <<failed, response, idx, lookups, sequence, clips, cleanup_files>>
    /\ UNCHANGED startup_vars
    /\ UNCHANGED <<body_read, disk, queries, caught>>

\* What the language model may answer to the best-match prompt: "NONE", a name
\* that is no file, the empty answer, listed names (bare; padded, quoted and
\* beyond the first ShownLimit), a name whose quote the cleaning removes, and
\* names of files that lie in other folders or are no videos.
PickAnswers ==
    { <<"N", "O", "N", "E">>, <<"z">>, <<>>,
      vname(1), <<" ", "'">> \o vname(ShownLimit + 1) \o <<"'", "\n">>,
      <<"\"", "n", "\"">>, <<"q", "'", "s">>, <<"m">>, <<"d">>, <<"r">>, <<"p">>, <<"t">> }

\* What a temp file holds.
File(fmt, text, id) == [fmt |-> fmt, text |-> text, id |-> id]

\* create_placeholder_image drawing no text.
create_placeholder_image_blank(text) == File("png", <<>>, 0)

\* create_placeholder_image(text): the PNG it saves.
create_placeholder_image(text) == File("png", text, 0)

\* for word in glosses: the word of the iteration after the first i.
next_word(gs, i) == gs[i + 1]

\* The loop of line 197 goes on, or the loop of line 207 starts.
AfterSearch ==
    /\ idx' = IF idx + 1 = Len(glosses) THEN 0 ELSE idx + 1
    /\ pc' = IF idx + 1 = Len(glosses) THEN "clips" ELSE "search"
    /\ UNCHANGED <<glosses, clips, failed, response>>

\* Lines 197-204: one iteration of the lookup loop.
Search ==
    /\ pc = "search"
    /\ LET word == next_word(glosses, idx)
       IN  \E folder_raises \in BOOLEAN, err_at \in 0..MaxErrAt,
              answer \in PickAnswers \cup {LLMRaises} :
           \E res \in {search_video_smart(drive_service, word, ROOT_FOLDER_ID,
                                          folder_raises, err_at, answer)} :
               /\ queries' = queries \cup res.queries
               /\ llm_calls' = llm_calls + res.llm
               /\ caught' = caught + res.caught
               /\ CASE res.type = "raise" ->
                         /\ Raise(res.step)
                         /\ UNCHANGED disk
                    [] res.type = "video" ->
                         /\ lookups' = Append(lookups, res)
                         /\ sequence' = Append(sequence,
                                [type |-> "video", id |-> res.id, path |-> 0, word |-> word])
                         /\ AfterSearch
                         /\ UNCHANGED <<cleanup_files, disk>>
                    [] OTHER ->
                         \E image \in {"ok", "draw_raises", "save_raises"} :
                         CASE image = "draw_raises" ->
                                /\ Raise("create_placeholder_image")
                                /\ UNCHANGED disk
                           [] image = "save_raises" ->
                                /\ disk' = Append(disk, File("empty", <<>>, 0))
                                /\ Raise("create_placeholder_image")
                           [] OTHER ->
                                /\ lookups' = Append(lookups, res)
                                /\ disk' = Append(disk, create_placeholder_image(word))
                                /\ sequence' = Append(sequence,
                                       [type |-> "image", id |-> 0, path |-> Len(disk'),
                                        word |-> word])
                                /\ cleanup_files' = Append(cleanup_files, Len(disk'))
                                /\ AfterSearch
    /\ UNCHANGED startup_vars
    /\ UNCHANGED <<body_read, gloss_count>>

\* Line 214: ImageClip(item['path']).set_duration(2)
image_clip(item) ==
    [kind |-> "ImageClip", path |-> item.path, duration |-> PlaceholderDuration]

\* Line 211: VideoFileClip(vid_path); it plays for the video's own length.
video_clip(vid_path) == [kind |-> "VideoFileClip", path |-> vid_path, duration |-> 0]

\* The clip loop putting each clip in front.
clips_with_in_front(cs, item, clip) == <<clip>> \o cs

\* clips.append(clip)
clips_with(cs, item, clip) == Append(cs, clip)

\* The loop of line 207 goes on, or line 217 is reached.
AfterClip ==
    /\ idx' = IF idx + 1 = Len(sequence) THEN 0 ELSE idx + 1
    /\ pc' = IF idx + 1 = Len(sequence) THEN "assemble" ELSE "clips"
    /\ UNCHANGED <<glosses, lookups, sequence, failed, response>>

\* Lines 207-215: one iteration of the clip loop.
MakeClip ==
    /\ pc = "clips"
    /\ LET item == sequence[idx + 1]
       IN  IF item.type = "video"
           THEN \E outcome \in {"ok", "get_media_raises", "next_chunk_raises", "clip_raises"} :
                CASE outcome = "get_media_raises" ->
                       /\ Raise("download_drive_video")
                       /\ UNCHANGED disk
                  [] outcome = "next_chunk_raises" ->
                       /\ disk' = Append(disk, File("partial", <<>>, item.id))
                       /\ Raise("download_drive_video")
                  [] outcome = "clip_raises" ->
                       /\ disk' = Append(disk, File("mp4", <<>>, item.id))
                       /\ Raise("VideoFileClip")
                  [] OTHER ->
                       /\ disk' = Append(disk, File("mp4", <<>>, item.id))
                       /\ cleanup_files' = Append(cleanup_files, Len(disk'))
                       /\ clips' = clips_with(clips, item, video_clip(Len(disk')))
                       /\ AfterClip
           ELSE \E outcome \in {"ok", "clip_raises"} :
                CASE outcome = "clip_raises" ->
                       /\ Raise("ImageClip")
                       /\ UNCHANGED disk
                  [] OTHER ->
                       /\ clips' = clips_with(clips, item, image_clip(item))
                       /\ AfterClip
                       /\ UNCHANGED <<cleanup_files, disk>>
    /\ UNCHANGED startup_vars
    /\ UNCHANGED <<body_read, gloss_count, llm_calls, queries, caught>>

\* The video send_file streams: the clips in the order they were concatenated.
video_response(final_clip) ==
    [status |-> 200, body |-> "video/mp4", video |-> final_clip]

\* Lines 217-226: 400 when there is no clip, else concatenate, write, send.
Assemble ==
    /\ pc = "assemble"
    /\ IF clips = <<>>
       THEN /\ Return([status |-> 400, body |-> "No content found", video |-> <<>>])
            /\ UNCHANGED <<failed, disk>>
       ELSE \E outcome \in {"ok", "concatenate_raises", "write_raises", "send_raises"} :
            CASE outcome = "concatenate_raises" ->
                   /\ Raise("concatenate_videoclips")
                   /\ UNCHANGED disk
              [] outcome = "write_raises" ->
                   /\ Raise("write_videofile")
                   /\ UNCHANGED disk
              [] outcome = "send_raises" ->
                   /\ disk' = Append(disk, File("output", <<>>, 0))
                   /\ Raise("send_file")
              [] OTHER ->
                   /\ disk' = Append(disk, File("output", <<>>, 0))
                   /\ Return(video_response(clips))
                   /\ UNCHANGED failed
    /\ UNCHANGED startup_vars
    /\ UNCHANGED <<body_read, gloss_count, llm_calls, queries, caught>>

Next ==
    \/ SetupDrive
    \/ ResolveRoot
    \/ Receive
    \/ GetGlosses
    \/ Search
    \/ MakeClip
    \/ Assemble

Spec == Init /\ [][Next]_vars

\* ------------------------------------------------------------ properties
\* The handler is between line 194 and its return: its locals are in scope.
InPipeline == pc \in {"search", "clips", "assemble"}

\* The gloss whose material clip c plays: the text drawn on its image, or the
\* word of the sequence item whose file it downloaded.
ImageText(c) == disk[c.path].text

\* C1: a request that reaches concatenation (line 220) hands
\* concatenate_videoclips exactly one clip per gloss, the i-th clip made of
\* the material of the i-th gloss: len(clips) = len(sequence) = len(glosses),
\* none skipped, duplicated or reordered.
C1_OneClipPerGlossInOrder ==
    (pc = "assemble" /\ clips # <<>>) =>
        /\ Len(clips) = Len(glosses)
        /\ Len(sequence) = Len(glosses)
        /\ \A i \in 1..Len(glosses) :
              /\ i <= Len(sequence) /\ i <= Len(clips)
              /\ sequence[i].word = glosses[i]
              /\ sequence[i].type = "image" =>
                    /\ clips[i].kind = "ImageClip"
                    /\ clips[i].path = sequence[i].path
                    /\ ImageText(clips[i]) = glosses[i]
              /\ sequence[i].type = "video" =>
                    /\ clips[i].kind = "VideoFileClip"
                    /\ disk[clips[i].path].fmt = "mp4"
                    /\ disk[clips[i].path].id = sequence[i].id
                    /\ sequence[i].id = lookups[i].id

\* C1 witness: two different glosses, one with a video and one with a
\* placeholder, have reached concatenation.
C1_Witness ==
    /\ pc = "assemble"
    /\ Len(clips) = 2
    /\ glosses[1] # glosses[2]
    /\ clips[1].kind = "VideoFileClip"
    /\ clips[2].kind = "ImageClip"

\* C2: a gloss gets a placeholder exactly when its lookup missed; the
\* placeholder shows exactly the gloss's text and is held for 2 seconds; on a
\* match the clip is the downloaded video with the matched file's id.
C2_PlaceholderIffMiss ==
    InPipeline =>
        /\ Len(sequence) = Len(lookups)
        /\ \A i \in 1..Len(sequence) :
              /\ (sequence[i].type = "image") <=> (lookups[i].type = None)
              /\ (sequence[i].type = "video") <=> (lookups[i].type = "video")
              /\ sequence[i].type = "image" =>
                    disk[sequence[i].path] = [fmt |-> "png", text |-> glosses[i], id |-> 0]
              /\ sequence[i].type = "video" => sequence[i].id = lookups[i].id
        /\ \A i \in 1..Len(clips) :
              /\ lookups[i].type = None =>
                    /\ clips[i].kind = "ImageClip"
                    /\ clips[i].duration = 2
                    /\ disk[clips[i].path] = [fmt |-> "png", text |-> glosses[i], id |-> 0]
              /\ lookups[i].type # None =>
                    /\ clips[i].kind = "VideoFileClip"
                    /\ disk[clips[i].path] = [fmt |-> "mp4", text |-> <<>>, id |-> lookups[i].id]

\* C2 witness: both clips are made, the first gloss missed and the second matched.
C2_Witness ==
    /\ pc = "assemble"
    /\ Len(clips) = 2
    /\ lookups[1].type = None /\ clips[1].kind = "ImageClip"
    /\ lookups[2].type = "video" /\ clips[2].kind = "VideoFileClip"

\* The per-letter folder the claim names for a gloss, from its first character.
ClaimedFolder(word) ==
    CASE word[1] \in {"a", "A"} -> "A"
      [] word[1] \in {"b", "B"} -> "B"
      [] word[1] = "7" -> "Numbers"
      [] OTHER -> "A"

FolderOf(folder_id) ==
    StoreFolders[CHOOSE k \in 1..Len(StoreFolders) : StoreFolders[k].id = folder_id]

\* C5: search_video_smart queries only the per-letter folder of the gloss's
\* first character (upper-cased letter, "Numbers" for a digit, "A" otherwise)
\* under the root folder, and lists only the files of the folder that query
\* found: never an ignored folder, the root itself or another subfolder.
C5_OnlyPerLetterFolder ==
    \A q \in queries :
        /\ q.kind = "folders" =>
              /\ q.parent = ROOT_FOLDER_ID
              /\ q.name \notin IGNORED_FOLDERS
              /\ InPipeline => \E i \in 1..Len(lookups) : q.name = ClaimedFolder(glosses[i])
        /\ q.kind = "files" =>
              /\ q.parent # ROOT_FOLDER_ID
              /\ FolderOf(q.parent).parent = ROOT_FOLDER_ID
              /\ FolderOf(q.parent).name \notin IGNORED_FOLDERS
              /\ ~FolderOf(q.parent).trashed
              /\ InPipeline =>
                    \E i \in 1..Len(lookups) :
                        FolderOf(q.parent).name = ClaimedFolder(glosses[i])

\* C5 witness: a request whose glosses start with a lower-case letter and with
\* a digit has listed the folders "A" and "Numbers".
C5_Witness ==
    /\ pc = "clips"
    /\ Len(glosses) = 2 /\ glosses[1][1] = "a" /\ glosses[2][1] = "7"
    /\ FilesQuery("fA") \in queries
    /\ FilesQuery("fN") \in queries

\* C10: no gloss is empty or padded with whitespace (and none holds a comma or
\* a newline), so word[0] never fails; and a request that passed the start-up
\* checks and raised nothing answers 400 "No content found" exactly when the
\* gloss list was empty, else 200 with a video of one clip per gloss.
C10_GlossesCleanAnd400IffEmpty ==
    /\ \A i \in 1..Len(glosses) :
          /\ glosses[i] # <<>>
          /\ glosses[i][1] \notin {" ", "\n"}
          /\ glosses[i][Len(glosses[i])] \notin {" ", "\n"}
          /\ \A j \in 1..Len(glosses[i]) : glosses[i][j] \notin {",", "\n"}
    /\ failed # "word[0]"
    /\ (pc = "done" /\ failed = None /\ drive_service # None /\ ROOT_FOLDER_ID # None) =>
          \/ /\ gloss_count = 0
             /\ response = [status |-> 400, body |-> "No content found", video |-> <<>>]
          \/ /\ gloss_count > 0
             /\ response.status = 200
             /\ Len(response.video) = gloss_count

\* C10 witness: the model's answer held no gloss and the request answered 400.
C10_Witness ==
    /\ pc = "done" /\ response.status = 400 /\ llm_calls = 1 /\ gloss_count = 0

\* C3 as stated: whenever a step of the pipeline raises, the storage folder
\* lookup and file listing included, the request ends with HTTP 500 carrying
\* the exception text and returns no video.
C3_AnyExceptionEndsIn500 ==
    (pc = "done" /\ (failed # None \/ caught > 0)) =>
        /\ response.status = 500
        /\ response.video = <<>>

\* C3 amended: an exception that leaves a step (request.json, gloss
\* generation, best-file selection, placeholder, download, clip construction,
\* concatenation, writing, sending) ends the request at once with HTTP 500
\* whose body is the exception's text and without a video; nothing is retried
\* and a 200 is never sent after such an exception.  Exceptions of the storage
\* folder lookup and file listing are caught in the helpers instead and do
\* not reach the blanket handler.
C3_BlanketHandler ==
    /\ failed # None =>
          /\ pc = "done"
          /\ response = [status |-> 500, body |-> exc_text(failed), video |-> <<>>]
    /\ (pc = "done" /\ response.status \in {200, 400}) => failed = None
    /\ failed \notin {"find_folder_id", "get_all_files_in_folder"}
    /\ (pc = "get_glosses") => llm_calls = 0
    /\ InPipeline => llm_calls <= 1 + Len(lookups)

\* C3 witness: a download raised and the request answered 500 with its text.
C3_Witness ==
    /\ pc = "done"
    /\ failed = "download_drive_video"
    /\ response.status = 500
    /\ response.body = "HttpError (media)"

\* C4: once a request has finished, on the success and on the error path, no
\* temp file it created exists any more.
C4_NoTempFileLeftBehind ==
    pc = "done" => disk = <<>>

\* The folder under the root the claim names for a gloss, if the store has it.
ClaimedFolderIds(word) ==
    {StoreFolders[k].id : k \in {j \in 1..Len(StoreFolders) :
        /\ StoreFolders[j].name = ClaimedFolder(word)
        /\ StoreFolders[j].parent = ROOT_FOLDER_ID}}

\* Whatever the model answers, pick_best_file returns None or a name of the
\* full list it was given (not only of the first ShownLimit names).
PickReturnsListedName ==
    \A folder_id \in FolderIds, err_at \in 0..MaxErrAt, answer \in PickAnswers :
        LET filenames == Listings[folder_id][err_at].filenames
            best == pick_best_file(<<"a">>, filenames, answer)
        IN  best = NoneName \/ in_list(best, filenames)

\* C6: a lookup's result is a file the storage listed, as a video and not
\* trashed, in the gloss's per-letter folder; pick_best_file returns None or a
\* member of the full list whatever the model answers; fmap[best] never fails.
C6_ResultIsListedFile ==
    /\ PickReturnsListedName
    /\ failed # "fmap[best]"
    /\ InPipeline =>
          \A i \in 1..Len(lookups) :
              lookups[i].type = "video" =>
                  \E k \in 1..Len(StoreFiles) :
                      /\ StoreFiles[k].id = lookups[i].id
                      /\ StoreFiles[k].parent \in ClaimedFolderIds(glosses[i])
                      /\ StoreFiles[k].parent = lookups[i].sid
                      /\ StoreFiles[k].mime = "video/mp4"
                      /\ ~StoreFiles[k].trashed

\* C6 witness: the model named, quoted and padded, a file beyond the first
\* ShownLimit names, and that file became the gloss's video.
C6_Witness ==
    /\ InPipeline
    /\ \E i \in 1..Len(lookups) :
          /\ lookups[i].type = "video" /\ lookups[i].id = ShownLimit + 1
          /\ ~in_list(vname(ShownLimit + 1), shown(Listings["fA"][0].filenames))
          /\ in_list(vname(ShownLimit + 1), Listings["fA"][0].filenames)

\* C7: the service account is tried first, whenever its credentials are set;
\* the API key is tried exactly when it is set and the service account is
\* unset or failed; drive_service is None exactly when neither succeeded.  A
\* configured ROOT_FOLDER_ID is kept as it is and not searched for; the
\* search by name runs exactly when no id is configured and the Drive is
\* connected.
C7_StartupOrder ==
    /\ pc # "setup_drive" =>
          /\ auth_tried \in {<<>>, <<"service_account">>, <<"api_key">>,
                             <<"service_account", "api_key">>}
          /\ in_list("service_account", auth_tried) <=> GOOGLE_CREDENTIALS_JSON # None
          /\ in_list("api_key", auth_tried) <=>
                (DRIVE_API_KEY # None /\ GOOGLE_CREDENTIALS_JSON # "valid")
          /\ GOOGLE_CREDENTIALS_JSON = "valid" => drive_service = "service_account"
          /\ (GOOGLE_CREDENTIALS_JSON # "valid" /\ DRIVE_API_KEY = "valid") =>
                drive_service = "api_key"
          /\ drive_service = None <=>
                (GOOGLE_CREDENTIALS_JSON # "valid" /\ DRIVE_API_KEY # "valid")
    /\ pc \notin {"setup_drive", "resolve_root"} =>
          /\ ENV_ROOT_FOLDER_ID # None =>
                (ROOT_FOLDER_ID = ENV_ROOT_FOLDER_ID /\ ~name_searched)
          /\ name_searched <=> (ENV_ROOT_FOLDER_ID = None /\ drive_service # None)
          /\ (~name_searched /\ ENV_ROOT_FOLDER_ID = None) => ROOT_FOLDER_ID = None

\* C7 witness: the service account failed, the API key connected, and the
\* root folder was found by name.
C7_Witness ==
    /\ pc = "idle"
    /\ auth_tried = <<"service_account", "api_key">>
    /\ drive_service = "api_key"
    /\ name_searched
    /\ ROOT_FOLDER_ID = "root"

\* C8: a request that arrives while drive_service is None or ROOT_FOLDER_ID is
\* unset is answered 500, "Google Drive not connected" first, before the body
\* is read, before any call of the model or the storage, with no temp file.
C8_RejectedBeforeAnyWork ==
    (drive_service = None \/ ROOT_FOLDER_ID = None) =>
        /\ pc \in {"setup_drive", "resolve_root", "idle", "done"}
        /\ pc = "done" =>
              /\ response.status = 500
              /\ response.body = IF drive_service = None
                                 THEN "Server Error: Google Drive not connected."
                                 ELSE "Server Error: 'ROOT_FOLDER_ID' not set in Env Vars."
              /\ ~body_read
              /\ llm_calls = 0
              /\ queries = {}
              /\ disk = <<>>
              /\ failed = None

\* C8 witness: the Drive is connected, the search by name found no root
\* folder, and a request was rejected.
C8_Witness ==
    /\ pc = "done"
    /\ drive_service # None
    /\ ROOT_FOLDER_ID = None
    /\ response.status = 500

\* How many names the listing of a folder holds on the pages before the call
\* that raised (err_page 0: on all its pages), from the store alone.
ListedBefore ==
    [folder_id \in FolderIds |->
        [err_page \in 0..MaxErrAt |->
            LET listing == drive_list_videos(folder_id)
                n == IF err_page = 0 THEN Len(listing)
                     ELSE Min((err_page - 1) * PageLen, Len(listing))
            IN  Cardinality({listing[k].name : k \in 1..n})]]

\* A storage exception during a gloss's folder lookup or file listing does not
\* fail the request: the listing keeps the entries of the pages before the
\* error, a gloss left with no folder or no files is a miss with a placeholder,
\* and the loop goes on with the next gloss.
StorageErrorsAreMisses ==
    /\ failed \notin {"find_folder_id", "get_all_files_in_folder"}
    /\ InPipeline =>
          /\ Len(sequence) = Len(lookups)
          /\ pc = "search" => (idx = Len(lookups) /\ idx < Len(glosses))
          /\ pc # "search" => Len(lookups) = Len(glosses)
          /\ \A i \in 1..Len(lookups) :
                /\ lookups[i].sid # None =>
                      lookups[i].nfiles = ListedBefore[lookups[i].sid][lookups[i].err_page]
                /\ (lookups[i].sid = None \/ lookups[i].nfiles = 0) =>
                      /\ lookups[i].type = None
                      /\ sequence[i].type = "image"
                      /\ disk[sequence[i].path].text = glosses[i]
    /\ caught > 0 =>
          (pc = "done" => (failed # None \/ response.status = 200))

\* C9 as stated: storage exceptions are caught in the helpers and make a miss,
\* and only exceptions from gloss generation, best-file selection, download or
\* video assembly abort the request.
C9_OnlyFourStepsAbort ==
    /\ StorageErrorsAreMisses
    /\ failed # None =>
          failed \in {"get_isl_glosses", "pick_best_file", "download_drive_video",
                      "VideoFileClip", "ImageClip", "concatenate_videoclips",
                      "write_videofile", "send_file"}

\* C9 amended: storage exceptions are caught in the helpers and make a miss;
\* the exceptions that abort the request are those of reading the request
\* body, gloss generation, best-file selection, placeholder creation, download
\* and video assembly.
C9_StorageErrorsCaught ==
    /\ StorageErrorsAreMisses
    /\ failed # None =>
          failed \in {"request.json", "create_placeholder_image",
                      "get_isl_glosses", "pick_best_file", "download_drive_video",
                      "VideoFileClip", "ImageClip", "concatenate_videoclips",
                      "write_videofile", "send_file"}

\* C9 witness: the folder query of the first gloss raised and the gloss got a
\* placeholder; the listing for the second gloss raised on its second page and
\* the gloss got a video named on the first.
C9_Witness ==
    /\ pc = "clips"
    /\ Len(lookups) = 2
    /\ lookups[1].caught = 1 /\ lookups[1].sid = None /\ sequence[1].type = "image"
    /\ lookups[2].err_page = 2 /\ lookups[2].nfiles = PageLen
    /\ sequence[2].type = "video"

====
